---- MODULE Spec2Model ----
(***************************************************************************)
(* The reactor of jsonrpc-reactor (src/src/reactor.rs): the caller's       *)
(* notify / request / request_with_id, the background fulfillment task     *)
(* spawned by Reactor::spawn, the transport at the far end of the three    *)
(* mpsc channels, and a coarse clock for time::Instant.                    *)
(*                                                                         *)
(* A call of the caller is one step up to the completion of its channel    *)
(* send (a send that waits for room is a step that has not happened yet)   *)
(* and, for a request that was enqueued, a second step once it holds the   *)
(* table lock (pc = "insert"): between the two, at pending.write().await,  *)
(* the other tasks run.  One iteration of the background task's loop is    *)
(* one step: between its recv and its lock it holds only the message, and  *)
(* no other task reads the inbound buffer.                                 *)
(*                                                                         *)
(* The JSON codec (src/src/impls.rs) is a set of pure conversions; the     *)
(* reactor never calls it.  It is modelled by operators, applied by the    *)
(* Encode / Decode steps of SpecCodec to values and documents drawn in     *)
(* InitCodec.                                                              *)
(***************************************************************************)
EXTENDS Integers, Sequences, FiniteSets, TLC

(* ------------------------------ bounds -------------------------------- *)

\* Width of the request-id counter.  The source's counter is an i64; the
\* model keeps two's-complement wrapping at this width so that the wrap is
\* reached.
IdBits == 2

\* Largest `capacity` handed to Reactor::spawn.
MaxCapacity == 2

\* Buffer size of the two outbound channels the caller hands to spawn.
ChanCap == 1

\* Last instant of the clock; durations range over 0 .. MaxTime - 1.
MaxTime == 1

\* Number of one-shot channels created over a run.
MaxWaiters == 3

\* ------------------------------ values -------------------------------- *)

I64Max == 2 ^ (IdBits - 1) - 1
I64Min == 0 - 2 ^ (IdBits - 1)

\* Number of request() calls followed: enough for the counter to wrap.
MaxCalls == I64Max + 2

\* Reduction of a natural number to the counter's two's-complement range.
ToI64(n) == ((n + 2 ^ (IdBits - 1)) % (2 ^ IdBits)) - 2 ^ (IdBits - 1)

\* enum Id { String(String), Number(i64) }
IdNumber(n) == [tag |-> "Number", num |-> n, str |-> ""]
IdString(s) == [tag |-> "String", num |-> 0, str |-> s]

\* Ids the caller passes to request_with_id.
UserIds == {IdString("a")}

\* Ids of the responses the transport pushes.
ResponseIds == {IdString("a"), IdNumber(0)}

\* Option<time::Duration>
None == [some |-> FALSE, dur |-> 0]
Some(d) == [some |-> TRUE, dur |-> d]
Timeouts == {None} \cup {Some(d) : d \in 0 .. (MaxTime - 1)}

\* Result<Value, RpcError>
Ok(v) == [ok |-> TRUE, value |-> v, code |-> 0, message |-> "", data |-> "null"]
Err(c, m, d) == [ok |-> FALSE, value |-> "", code |-> c, message |-> m, data |-> d]

\* The outcomes a peer reports: a value or a remote RpcError.
RemoteResults == {Ok("v"), Err(7, "remote", "null")}

\* The failure the sweep sends.
TimeoutError == Err(-1, "response timeout", "null")

\* struct Response { id, result }
\* `asked` is history: when the transport pushed the response, a request
\* with its id was visible on the outbound channel and not answered yet.
\* `raced` is history: when the transport pushed the response, an entry
\* with its id was pending and an earlier response with its id was queued.
Response(id, result, asked, raced) ==
    [id |-> id, result |-> result, asked |-> asked, raced |-> raced]

\* struct Request / struct Notification, with one method and null params.
Request(id) == [id |-> id, method |-> "m", params |-> "Null"]
Notification == [method |-> "m", params |-> "Null"]

\* struct PendingRequest { sender, moment, timeout }; the sender is the
\* index of its one-shot channel in `waiters`.
PendingRequest(sender, moment, timeout) ==
    [sender |-> sender, moment |-> moment, timeout |-> timeout]

\* A request_with_id call between its send and the table lock.
Call(id, timeout, moment, rx) ==
    [id |-> id, timeout |-> timeout, moment |-> moment, rx |-> rx]
NoCall == Call(IdString(""), None, 0, 0)

\* What the last call returned ("running": it has not returned yet).
RetNone == "None"
RetSome == "Some"
RetBool(b) == IF b THEN "true" ELSE "false"
RetRunning == "running"
RetInit == "init"

(* --------------------------- the JSON codec --------------------------- *)
(* src/src/impls.rs: the conversions between serde_json::Value and Id,     *)
(* Params, Request, Notification, RpcError and Response.                   *)

\* serde_json::Value.  A Number is an integer n (PosInt / NegInt, from the
\* smallest i64 to the largest u64 of the counter's width) or a float.
JNull == [tag |-> "Null"]
JBool(b) == [tag |-> "Bool", b |-> b]
JNumber(n) == [tag |-> "Number", float |-> FALSE, n |-> n]
JFloat(n) == [tag |-> "Number", float |-> TRUE, n |-> n]
JString(s) == [tag |-> "String", s |-> s]
JArray(a) == [tag |-> "Array", a |-> a]
JObject(o) == [tag |-> "Object", o |-> o]

\* Map::new()
EmptyObject == [k \in {} |-> JNull]

\* Option<&Value>::None of Map::get, and of the model's inputs.
Absent == [tag |-> "Absent"]

\* Map::get
Get(map, k) == IF k \in DOMAIN map THEN map[k] ELSE Absent

\* Result<T, Error> of the TryFrom conversions.
Decoded(v) == [ok |-> TRUE, val |-> v]
Failed(e) == [ok |-> FALSE, error |-> e]

\* Value::as_i64: the integer of a Number that fits an i64.
as_i64_is_some(v) == v.tag = "Number" /\ ~v.float /\ v.n <= I64Max

\* enum Params { Array(Vec<Value>), Object(Map<String, Value>), Null }
ParamsNull == [tag |-> "Null"]
ParamsArray(a) == [tag |-> "Array", a |-> a]
ParamsObject(m) == [tag |-> "Object", o |-> m]

\* struct Request / Notification / RpcError / Response, and the two
\* variants of Response.result.
NewRequest(id, method, params) ==
    [kind |-> "Request", id |-> id, method |-> method, params |-> params]
NewNotification(method, params) ==
    [kind |-> "Notification", method |-> method, params |-> params]
RpcError(code, message, data) ==
    [kind |-> "RpcError", code |-> code, message |-> message, data |-> data]
ResultOk(v) == [ok |-> TRUE, value |-> v]
ResultErr(e) == [ok |-> FALSE, error |-> e]
NewResponse(id, result) == [kind |-> "Response", id |-> id, result |-> result]

\* impl From<Id> for Value
IdToValue(id) ==
    IF id.tag = "String" THEN JString(id.str) ELSE JNumber(id.num)

\* impl TryFrom<&Value> for Id
IdTryFrom(value) ==
    IF value.tag = "Number"
    THEN IF as_i64_is_some(value)
         THEN Decoded(IdNumber(value.n))
         ELSE Failed("InvalidNumberCast")
    ELSE IF value.tag = "String"
    THEN Decoded(IdString(value.s))
    ELSE Failed("UnexpectedIdVariant")

\* impl From<Params> for Value
ParamsToValue(params) ==
    IF params.tag = "Array" THEN JArray(params.a)
    ELSE IF params.tag = "Object" THEN JObject(params.o)
    ELSE JNull

\* impl TryFrom<&Value> for Params
ParamsTryFrom(value) ==
    IF value.tag = "Null" THEN Decoded(ParamsNull)
    ELSE IF value.tag = "Array" THEN Decoded(ParamsArray(value.a))
    ELSE IF value.tag = "Object" THEN Decoded(ParamsObject(value.o))
    ELSE Failed("UnexpectedParamsVariant")

\* One item of the iterator chains of the encoders: Some((key, value)) or
\* None.
Entry(k, v) == [some |-> TRUE, key |-> k, val |-> v]
NoEntry == [some |-> FALSE, key |-> "", val |-> JNull]

\* .flatten().collect() into a Map: the Some items, a later one replacing
\* an earlier one under the same key.
Collect(items) ==
    LET present == {i \in DOMAIN items : items[i].some}
        last(k) == CHOOSE i \in present :
                       /\ items[i].key = k
                       /\ \A j \in present : items[j].key = k => j <= i
    IN  [k \in {items[i].key : i \in present} |-> items[last(k)].val]

\* map.get("jsonrpc").ok_or(JsonRpcVersionNotFound)?.as_str()
\*    .filter(|version| version == &"2.0").ok_or(InvalidJsonRpcVersion)?
\* The error it returns, "" when it passes.
VersionError(map) ==
    IF "jsonrpc" \notin DOMAIN map THEN "JsonRpcVersionNotFound"
    ELSE IF map["jsonrpc"].tag = "String" /\ map["jsonrpc"].s = "2.0" THEN ""
    ELSE "InvalidJsonRpcVersion"

\* map.get("method").ok_or(ExpectedMethod)?.as_str()
\*    .ok_or(InvalidMethodVariant)?
MethodError(map) ==
    IF "method" \notin DOMAIN map THEN "ExpectedMethod"
    ELSE IF map["method"].tag = "String" THEN ""
    ELSE "InvalidMethodVariant"

\* map.get("id").ok_or(ExpectedId)?.try_into()
IdOf(map) ==
    IF "id" \notin DOMAIN map THEN Failed("ExpectedId") ELSE IdTryFrom(map["id"])

\* map.get("params").unwrap_or(&Value::Null).try_into()
ParamsOf(map) ==
    ParamsTryFrom(IF "params" \in DOMAIN map THEN map["params"] ELSE JNull)

\* A Request encoder that emits `params` in every case, as the
\* Notification encoder does.
RequestToValueAlwaysParams(req) ==
    JObject(Collect(<<Entry("jsonrpc", JString("2.0")),
                      Entry("method", JString(req.method)),
                      Entry("params", ParamsToValue(req.params)),
                      Entry("id", IdToValue(req.id))>>))

\* impl From<Request> for Value
RequestToValue(req) ==
    LET params == ParamsToValue(req.params)
    IN  JObject(Collect(<<Entry("jsonrpc", JString("2.0")),
                          Entry("method", JString(req.method)),
                          IF params.tag # "Null"
                          THEN Entry("params", params)
                          ELSE NoEntry,
                          Entry("id", IdToValue(req.id))>>))

\* A Request decoder that reads `method` before `id`.
RequestTryFromMethodFirst(value) ==
    IF value.tag # "Object" THEN Failed("UnexpectedRequestVariant")
    ELSE LET map == value.o
         IN  IF VersionError(map) # "" THEN Failed(VersionError(map))
             ELSE IF MethodError(map) # "" THEN Failed(MethodError(map))
             ELSE IF ~IdOf(map).ok THEN IdOf(map)
             ELSE IF ~ParamsOf(map).ok THEN ParamsOf(map)
             ELSE Decoded(NewRequest(IdOf(map).val, map["method"].s,
                                     ParamsOf(map).val))

\* impl TryFrom<&Value> for Request
RequestTryFrom(value) ==
    IF value.tag # "Object" THEN Failed("UnexpectedRequestVariant")
    ELSE LET map == value.o
         IN  IF VersionError(map) # "" THEN Failed(VersionError(map))
             ELSE IF ~IdOf(map).ok THEN IdOf(map)
             ELSE IF MethodError(map) # "" THEN Failed(MethodError(map))
             ELSE IF ~ParamsOf(map).ok THEN ParamsOf(map)
             ELSE Decoded(NewRequest(IdOf(map).val, map["method"].s,
                                     ParamsOf(map).val))

\* impl From<Notification> for Value
NotificationToValue(notification) ==
    JObject([jsonrpc |-> JString("2.0"),
             method |-> JString(notification.method),
             params |-> ParamsToValue(notification.params)])

\* A Notification decoder that refuses a document carrying an `id`.
NotificationTryFromRejectId(value) ==
    IF value.tag # "Object" THEN Failed("UnexpectedRequestVariant")
    ELSE LET map == value.o
         IN  IF VersionError(map) # "" THEN Failed(VersionError(map))
             ELSE IF "id" \in DOMAIN map THEN Failed("UnexpectedNotificationVariant")
             ELSE IF MethodError(map) # "" THEN Failed(MethodError(map))
             ELSE IF ~ParamsOf(map).ok THEN ParamsOf(map)
             ELSE Decoded(NewNotification(map["method"].s, ParamsOf(map).val))

\* impl TryFrom<&Value> for Notification
NotificationTryFrom(value) ==
    IF value.tag # "Object" THEN Failed("UnexpectedRequestVariant")
    ELSE LET map == value.o
         IN  IF VersionError(map) # "" THEN Failed(VersionError(map))
             ELSE IF MethodError(map) # "" THEN Failed(MethodError(map))
             ELSE IF ~ParamsOf(map).ok THEN ParamsOf(map)
             ELSE Decoded(NewNotification(map["method"].s, ParamsOf(map).val))

\* impl From<RpcError> for Value: json!({code, message, data}); the data,
\* already a Value, is serialized to itself.
RpcErrorToValue(re) ==
    JObject([code |-> JNumber(re.code),
             message |-> JString(re.message),
             data |-> re.data])

\* impl TryFrom<&Value> for RpcError (and TryFrom<Value>, the same body)
RpcErrorTryFrom(value) ==
    IF value.tag # "Object" THEN Failed("UnexpectedErrorVariant")
    ELSE LET map == value.o
         IN  IF "code" \notin DOMAIN map THEN Failed("ExpectedErrorCode")
             ELSE IF ~as_i64_is_some(map["code"])
             THEN Failed("ExpectedErrorCodeAsInteger")
             ELSE IF "message" \notin DOMAIN map THEN Failed("ExpectedErrorMessage")
             ELSE IF map["message"].tag # "String"
             THEN Failed("ExpectedErrorCodeAsString")
             ELSE Decoded(RpcError(map["code"].n, map["message"].s,
                                   IF "data" \in DOMAIN map
                                   THEN map["data"]
                                   ELSE JNull))

\* impl From<Response> for Value
ResponseToValue(response) ==
    JObject(Collect(<<Entry("jsonrpc", JString("2.0")),
                      Entry("id", IdToValue(response.id)),
                      IF response.result.ok
                      THEN Entry("result", response.result.value)
                      ELSE Entry("error", RpcErrorToValue(response.result.error))>>))

\* map.get("error").map(RpcError::try_from).transpose(): None when the
\* key is absent, else the conversion of its value.
ErrorOf(map) ==
    IF "error" \in DOMAIN map THEN RpcErrorTryFrom(map["error"]) ELSE Decoded(Absent)

\* The rest of the Response decoder once `result` and `error` are read:
\* the match on the pair, then the id.
ResponseMatch(map, result, error) ==
    IF (result # Absent) = (error # Absent)
    THEN Failed("ResponseExpectsResultOrError")
    ELSE IF ~IdOf(map).ok THEN IdOf(map)
    ELSE Decoded(NewResponse(IdOf(map).val,
                             IF result # Absent
                             THEN ResultOk(result)
                             ELSE ResultErr(error)))

\* A Response decoder that takes a null `result` for an absent one.
ResponseTryFromNullAsAbsent(value) ==
    IF value.tag # "Object" THEN Failed("UnexpectedResponseVariant")
    ELSE LET map == value.o
         IN  IF VersionError(map) # "" THEN Failed(VersionError(map))
             ELSE IF ~ErrorOf(map).ok THEN ErrorOf(map)
             ELSE ResponseMatch(map,
                                IF Get(map, "result") = JNull
                                THEN Absent
                                ELSE Get(map, "result"),
                                ErrorOf(map).val)

\* A Response decoder that takes the `result` when both keys are present.
ResponseTryFromPreferResult(value) ==
    IF value.tag # "Object" THEN Failed("UnexpectedResponseVariant")
    ELSE LET map == value.o
         IN  IF VersionError(map) # "" THEN Failed(VersionError(map))
             ELSE IF ~ErrorOf(map).ok THEN ErrorOf(map)
             ELSE ResponseMatch(map, Get(map, "result"),
                                IF "result" \in DOMAIN map
                                THEN Absent
                                ELSE ErrorOf(map).val)

\* impl TryFrom<&Value> for Response (and TryFrom<Value>, the same body)
ResponseTryFrom(value) ==
    IF value.tag # "Object" THEN Failed("UnexpectedResponseVariant")
    ELSE LET map == value.o
         IN  IF VersionError(map) # "" THEN Failed(VersionError(map))
             ELSE IF ~ErrorOf(map).ok THEN ErrorOf(map)
             ELSE ResponseMatch(map, Get(map, "result"), ErrorOf(map).val)

VARIABLES
    capacity,           \* Reactor.capacity
    request_id,         \* Reactor.request_id
    requests,           \* outbound request channel (buffer)
    requestsOpen,       \* its receiver is alive
    notifications,      \* outbound notification channel (buffer)
    notificationsOpen,  \* its receiver is alive
    responses,          \* inbound response channel (buffer)
    responsesOpen,      \* some inbound sender is alive
    pending,            \* the pending table: Id -> PendingRequest
    waiters,            \* the one-shot channels created so far
    pc,                 \* caller task: "idle", "insert"
    call,               \* the request_with_id call in progress
    ret,                \* return value of the last call
    alive,              \* the Reactor handle has not been dropped
    bgDone,             \* the background task has ended
    now,                \* the clock
    nCalls,             \* history: number of request() calls made
    src,                \* codec: the typed value given to an encoder
    wire,               \* codec: the JSON document encoded or received
    decoded             \* codec: what each decoder applied to `wire` returned

vars == <<capacity, request_id, requests, requestsOpen, notifications,
          notificationsOpen, responses, responsesOpen, pending, waiters,
          pc, call, ret, alive, bgDone, now, nCalls, src, wire, decoded>>

reactor == <<capacity, request_id, requests, requestsOpen, notifications,
             notificationsOpen, responses, responsesOpen, pending, waiters,
             pc, call, ret, alive, bgDone, now, nCalls>>
codec == <<src, wire, decoded>>

reqChan == <<requests, requestsOpen>>
notifChan == <<notifications, notificationsOpen>>
inChan == <<responses, responsesOpen>>
table == <<pending, waiters>>

(* ------------------------- one-shot channels -------------------------- *)

\* oneshot::channel(): the sender goes into the table, the receiver to the
\* caller.  `got` is what the receiver has been sent, `closed` that the
\* sender was dropped without sending, `rx` that the receiver is alive.
NewWaiter == [got |-> <<>>, closed |-> FALSE, rx |-> TRUE]

\* sender.send(result).ok(): delivers unless the receiver is gone.
\* `by` is history: 0 when the background task sent, and when a sweep sent,
\* the receiver index of the registration that ran it.
OneshotSend(ws, w, result, by) ==
    IF ws[w].rx
    THEN [ws EXCEPT ![w].got = Append(@, [val |-> result, by |-> by])]
    ELSE ws

\* Dropping senders that never sent.
OneshotDrop(ws, dropped) ==
    [w \in DOMAIN ws |-> IF w \in dropped THEN [ws[w] EXCEPT !.closed = TRUE] ELSE ws[w]]

\* HashMap::insert / HashMap::remove
MapInsert(q, k, v) == [x \in (DOMAIN q) \cup {k} |-> IF x = k THEN v ELSE q[x]]
MapRemove(q, ks) == [x \in (DOMAIN q) \ ks |-> q[x]]
EmptyMap == [x \in {} |-> PendingRequest(0, 0, None)]

Senders(q) == {q[k].sender : k \in DOMAIN q}

\* The table is shared by the Reactor and the background task (Arc); it is
\* dropped, with every sender in it, when both are gone.
TableDropped(alive_, bgDone_) == ~alive_ /\ bgDone_

(* --------------------------- Reactor::spawn --------------------------- *)

spawn ==
    /\ capacity \in 1 .. MaxCapacity
    /\ request_id = 0
    /\ requests = <<>>
    /\ requestsOpen = TRUE
    /\ notifications = <<>>
    /\ notificationsOpen = TRUE
    /\ responses = <<>>
    /\ responsesOpen = TRUE
    /\ pending = EmptyMap
    /\ waiters = <<>>
    /\ pc = "idle"
    /\ call = NoCall
    /\ ret = RetInit
    /\ alive = TRUE
    /\ bgDone = FALSE
    /\ now = 0
    /\ nCalls = 0

\* No decoder has been applied yet.
NoOut == [k \in {} |-> Failed("")]

\* The reactor after spawn; the codec is not in use.
Init ==
    /\ spawn
    /\ src = Absent
    /\ wire = Absent
    /\ decoded = NoOut

(* ------------------------------ helpers ------------------------------- *)

\* A counter that stops at the largest value instead of wrapping.
saturating_add(x) == IF x = I64Max THEN I64Max ELSE x + 1

\* i64::wrapping_add(id, 1)
wrapping_add(x) == IF x = I64Max THEN I64Min ELSE x + 1

\* mpsc::Sender::send / send_timeout on a bounded channel: there is room.
HasRoom(chan, cap) == Len(chan) < cap

\* send_timeout gives up when its timer fires with the buffer still full;
\* send (no timeout) waits on.
CanTimeOut(timeout) == timeout.some

\* An insert that keeps an entry already under id (entry().or_insert) and
\* drops the new sender instead.
InsertIfAbsent(q, ws, id, entry) ==
    IF id \in DOMAIN q
    THEN [q |-> q, ws |-> OneshotDrop(ws, {entry.sender})]
    ELSE [q |-> MapInsert(q, id, entry), ws |-> ws]

\* queue.insert(id, pending): the new entry replaces any entry under id,
\* whose sender is dropped with it.
Insert(q, ws, id, entry) ==
    [q |-> MapInsert(q, id, entry),
     ws |-> OneshotDrop(ws, IF id \in DOMAIN q THEN {q[id].sender} ELSE {})]

\* A filter that expires an entry as soon as its timeout is reached.
IsExpiredInclusive(p, t_now) == p.timeout.some /\ p.timeout.dur <= t_now - p.moment

\* A filter that takes a missing timeout for a zero one (unwrap_or_default).
IsExpiredNoneAsZero(p, t_now) == p.timeout.dur < t_now - p.moment

\* The filter of the sweep: pending.timeout.and_then(|t| (t < diff).then_some(id))
IsExpired(p, t_now) == p.timeout.some /\ p.timeout.dur < t_now - p.moment

\* A trigger that fires as soon as the table has reached capacity.
SweepAtCapacity(cap, q) == cap <= Cardinality(DOMAIN q)

\* if self.capacity < queue.len()
SweepNeeded(cap, q) == cap < Cardinality(DOMAIN q)

\* A sweep that removes the expired entries without sending them anything.
SweepDropping(q, ws, t_now, by) ==
    LET expired == {id \in DOMAIN q : IsExpired(q[id], t_now)}
    IN  [q |-> MapRemove(q, expired),
         ws |-> OneshotDrop(ws, {q[id].sender : id \in expired})]

\* The sweep: every expired entry is removed and its sender sent the
\* timeout failure.
Sweep(q, ws, t_now, by) ==
    LET expired == {id \in DOMAIN q : IsExpired(q[id], t_now)}
        senders == {q[id].sender : id \in expired}
    IN  [q |-> MapRemove(q, expired),
         ws |-> [w \in DOMAIN ws |->
                    IF w \in senders
                    THEN OneshotSend(ws, w, TimeoutError, by)[w]
                    ELSE ws[w]]]

\* A loop body that looks the entry up (get) and leaves it in the table.
FulfilKeeping(q, ws, msg) ==
    IF msg.id \in DOMAIN q
    THEN [q |-> q, ws |-> OneshotSend(ws, q[msg.id].sender, msg.result, 0)]
    ELSE [q |-> q, ws |-> ws]

\* A loop body that matches by arrival order: the oldest entry is taken,
\* whatever the response's id.
FulfilOldest(q, ws, msg) ==
    IF DOMAIN q # {}
    THEN LET k == CHOOSE k \in DOMAIN q : \A j \in DOMAIN q : q[k].sender <= q[j].sender
         IN  [q |-> MapRemove(q, {k}),
              ws |-> OneshotSend(ws, q[k].sender, msg.result, 0)]
    ELSE [q |-> q, ws |-> ws]

\* The body of the background task's loop: pending.remove(&id), and the
\* result sent to the removed entry's sender.
Fulfil(q, ws, msg) ==
    IF msg.id \in DOMAIN q
    THEN [q |-> MapRemove(q, {msg.id}),
          ws |-> OneshotSend(ws, q[msg.id].sender, msg.result, 0)]
    ELSE [q |-> q, ws |-> ws]

\* The last Arc to the table going away drops the table and its senders.
DropTable(q, ws) == [q |-> EmptyMap, ws |-> OneshotDrop(ws, Senders(q))]

(* ------------------------------ the caller ---------------------------- *)

\* request_with_id, the send succeeds: the request is enqueued, the
\* one-shot channel created and the moment taken; the call goes on to wait
\* for the table lock.
SendOk(id, t) ==
    /\ requestsOpen /\ HasRoom(requests, ChanCap)
    /\ requests' = Append(requests, Request(id))
    /\ waiters' = Append(waiters, NewWaiter)
    /\ call' = Call(id, t, now, Len(waiters) + 1)
    /\ ret' = RetRunning
    /\ pc' = "insert"
    /\ UNCHANGED <<requestsOpen, pending>>

\* A request_with_id that registers before it sends, and leaves the entry
\* behind when the send fails.
SendFailLeaking(id, t) ==
    /\ \/ ~requestsOpen
       \/ ~HasRoom(requests, ChanCap) /\ CanTimeOut(t)
    /\ waiters' = Append(waiters, NewWaiter)
    /\ pending' = MapInsert(pending, id, PendingRequest(Len(waiters) + 1, now, t))
    /\ ret' = RetNone
    /\ UNCHANGED <<reqChan, call, pc>>

\* A request_with_id that also gives up when the inbound channel is closed.
SendFailInboundClosed(id, t) ==
    /\ \/ ~requestsOpen
       \/ ~HasRoom(requests, ChanCap) /\ CanTimeOut(t)
       \/ ~responsesOpen
    /\ ret' = RetNone
    /\ UNCHANGED <<reqChan, table, call, pc>>

\* request_with_id, the send fails (channel closed, or full until the
\* timeout): return None.
SendFail(id, t) ==
    /\ \/ ~requestsOpen
       \/ ~HasRoom(requests, ChanCap) /\ CanTimeOut(t)
    /\ ret' = RetNone
    /\ UNCHANGED <<reqChan, table, call, pc>>

\* Reactor::request: takes the counter as the id, advances it, and calls
\* request_with_id.
CallRequest(t) ==
    /\ pc = "idle" /\ alive
    /\ request_id' = wrapping_add(request_id)
    /\ nCalls' = nCalls + 1
    /\ \/ SendOk(IdNumber(request_id), t)
       \/ SendFail(IdNumber(request_id), t)
    /\ UNCHANGED <<capacity, alive, notifChan, inChan, bgDone, now>>

\* Reactor::request_with_id up to the table lock.
CallRequestWithId(id, t) ==
    /\ pc = "idle" /\ alive
    /\ \/ SendOk(id, t)
       \/ SendFail(id, t)
    /\ UNCHANGED <<capacity, request_id, nCalls, alive, notifChan, inChan,
                   bgDone, now>>

\* A request_with_id that sweeps before it inserts.
RegisterSweepFirst ==
    /\ pc = "insert"
    /\ LET out == IF SweepNeeded(capacity, MapInsert(pending, call.id,
                                     PendingRequest(call.rx, call.moment, call.timeout)))
                  THEN Sweep(pending, waiters, now, call.rx)
                  ELSE [q |-> pending, ws |-> waiters]
           ins == Insert(out.q, out.ws, call.id,
                         PendingRequest(call.rx, call.moment, call.timeout))
       IN  /\ pending' = ins.q
           /\ waiters' = ins.ws
    /\ ret' = RetSome
    /\ call' = NoCall
    /\ pc' = "idle"
    /\ UNCHANGED <<capacity, request_id, nCalls, alive, reqChan, notifChan,
                   inChan, bgDone, now>>

\* request_with_id with the table lock: insert, sweep if the table has
\* outgrown capacity, and return the receiver.
Register ==
    /\ pc = "insert"
    /\ LET ins == Insert(pending, waiters, call.id,
                         PendingRequest(call.rx, call.moment, call.timeout))
           out == IF SweepNeeded(capacity, ins.q)
                  THEN Sweep(ins.q, ins.ws, now, call.rx)
                  ELSE ins
       IN  /\ pending' = out.q
           /\ waiters' = out.ws
    /\ ret' = RetSome
    /\ call' = NoCall
    /\ pc' = "idle"
    /\ UNCHANGED <<capacity, request_id, nCalls, alive, reqChan, notifChan,
                   inChan, bgDone, now>>

\* A notify that takes an id from the counter, as request does.
NotifyTakingId(t) ==
    /\ pc = "idle" /\ alive
    /\ request_id' = wrapping_add(request_id)
    /\ \/ /\ notificationsOpen /\ HasRoom(notifications, ChanCap)
          /\ notifications' = Append(notifications, Notification)
          /\ ret' = RetBool(TRUE)
       \/ /\ \/ ~notificationsOpen
             \/ ~HasRoom(notifications, ChanCap) /\ CanTimeOut(t)
          /\ notifications' = notifications
          /\ ret' = RetBool(FALSE)
    /\ UNCHANGED <<capacity, nCalls, alive, pc, call, reqChan,
                   notificationsOpen, inChan, table, bgDone, now>>

\* Reactor::notify: true when the notification was enqueued, false when
\* the channel is closed or stays full until the timeout.
Notify(t) ==
    /\ pc = "idle" /\ alive
    /\ \/ /\ notificationsOpen /\ HasRoom(notifications, ChanCap)
          /\ notifications' = Append(notifications, Notification)
          /\ ret' = RetBool(TRUE)
       \/ /\ \/ ~notificationsOpen
             \/ ~HasRoom(notifications, ChanCap) /\ CanTimeOut(t)
          /\ notifications' = notifications
          /\ ret' = RetBool(FALSE)
    /\ UNCHANGED <<capacity, request_id, nCalls, alive, pc, call, reqChan,
                   notificationsOpen, inChan, table, bgDone, now>>

\* The caller drops the Reactor handle.
DropReactor ==
    /\ pc = "idle" /\ alive
    /\ alive' = FALSE
    /\ LET out == IF TableDropped(FALSE, bgDone)
                  THEN DropTable(pending, waiters)
                  ELSE [q |-> pending, ws |-> waiters]
       IN  pending' = out.q /\ waiters' = out.ws
    /\ UNCHANGED <<capacity, request_id, nCalls, pc, call, ret, reqChan,
                   notifChan, inChan, bgDone, now>>

\* The caller drops a receiver it was returned, without awaiting it further.
Abandon(w) ==
    /\ ~(pc = "insert" /\ call.rx = w)
    /\ waiters[w].rx /\ waiters[w].got = <<>> /\ ~waiters[w].closed
    /\ waiters' = [waiters EXCEPT ![w].rx = FALSE]
    /\ UNCHANGED <<capacity, request_id, nCalls, pc, call, ret, alive, reqChan,
                   notifChan, inChan, pending, bgDone, now>>

(* --------------------------- the transport ---------------------------- *)

\* The transport takes the next request off the outbound channel.
TakeRequest ==
    /\ requests # <<>>
    /\ requests' = Tail(requests)
    /\ UNCHANGED <<capacity, request_id, nCalls, pc, call, ret, alive,
                   requestsOpen, notifChan, inChan, table, bgDone, now>>

\* The transport takes the next notification off the outbound channel.
TakeNotification ==
    /\ notifications # <<>>
    /\ notifications' = Tail(notifications)
    /\ UNCHANGED <<capacity, request_id, nCalls, pc, call, ret, alive, reqChan,
                   notificationsOpen, inChan, table, bgDone, now>>

\* The transport drops the receiver of the outbound request channel.
CloseRequests ==
    /\ requestsOpen
    /\ requestsOpen' = FALSE
    /\ requests' = <<>>
    /\ UNCHANGED <<capacity, request_id, nCalls, pc, call, ret, alive,
                   notifChan, inChan, table, bgDone, now>>

\* The transport drops the receiver of the outbound notification channel.
CloseNotifications ==
    /\ notificationsOpen
    /\ notificationsOpen' = FALSE
    /\ notifications' = <<>>
    /\ UNCHANGED <<capacity, request_id, nCalls, pc, call, ret, alive, reqChan,
                   inChan, table, bgDone, now>>

\* A request with this id has been enqueued and its one-shot channel
\* neither sent to nor dropped: it is in the table, or its call is waiting
\* for the table lock.
Outstanding(id) == id \in DOMAIN pending \/ (pc = "insert" /\ call.id = id)

\* An entry with this id is pending and a response with this id is queued.
Raced(id) ==
    /\ id \in DOMAIN pending
    /\ \E i \in DOMAIN responses : responses[i].id = id

\* The transport pushes a decoded Response on the inbound channel, whose
\* buffer is `capacity` (mpsc::channel(capacity)).
PushResponse(id, result) ==
    /\ responsesOpen /\ HasRoom(responses, capacity)
    /\ responses' = Append(responses,
                           Response(id, result, Outstanding(id), Raced(id)))
    /\ UNCHANGED <<capacity, request_id, nCalls, pc, call, ret, alive, reqChan,
                   notifChan, responsesOpen, table, bgDone, now>>

\* Every inbound sender is dropped.
CloseResponses ==
    /\ responsesOpen
    /\ responsesOpen' = FALSE
    /\ UNCHANGED <<capacity, request_id, nCalls, pc, call, ret, alive, reqChan,
                   notifChan, responses, table, bgDone, now>>

(* ------------------------ the background task ------------------------- *)

\* A loop that takes the response queued last.
BgHandleNewest ==
    /\ ~bgDone /\ responses # <<>>
    /\ LET out == Fulfil(pending, waiters, responses[Len(responses)])
       IN  pending' = out.q /\ waiters' = out.ws
    /\ responses' = SubSeq(responses, 1, Len(responses) - 1)
    /\ UNCHANGED <<capacity, request_id, nCalls, pc, call, ret, alive, reqChan,
                   notifChan, responsesOpen, bgDone, now>>

\* One iteration of the loop: recv yields Some(response); with the table
\* lock, the entry of its id is removed and sent the result.
BgHandle ==
    /\ ~bgDone /\ responses # <<>>
    /\ LET out == Fulfil(pending, waiters, Head(responses))
       IN  pending' = out.q /\ waiters' = out.ws
    /\ responses' = Tail(responses)
    /\ UNCHANGED <<capacity, request_id, nCalls, pc, call, ret, alive, reqChan,
                   notifChan, responsesOpen, bgDone, now>>

\* A task that also ends once the Reactor handle is dropped.
BgEndOnDrop ==
    /\ ~bgDone /\ responses = <<>> /\ (~responsesOpen \/ ~alive)
    /\ bgDone' = TRUE
    /\ LET out == IF TableDropped(alive, TRUE)
                  THEN DropTable(pending, waiters)
                  ELSE [q |-> pending, ws |-> waiters]
       IN  pending' = out.q /\ waiters' = out.ws
    /\ UNCHANGED <<capacity, request_id, nCalls, pc, call, ret, alive, reqChan,
                   notifChan, inChan, now>>

\* recv yields None (buffer empty, every sender dropped): the loop and the
\* task end.
BgEnd ==
    /\ ~bgDone /\ responses = <<>> /\ ~responsesOpen
    /\ bgDone' = TRUE
    /\ LET out == IF TableDropped(alive, TRUE)
                  THEN DropTable(pending, waiters)
                  ELSE [q |-> pending, ws |-> waiters]
       IN  pending' = out.q /\ waiters' = out.ws
    /\ UNCHANGED <<capacity, request_id, nCalls, pc, call, ret, alive, reqChan,
                   notifChan, inChan, now>>

(* ------------------------------ the clock ----------------------------- *)

\* time::Instant::now() advances.
Tick ==
    /\ now < MaxTime
    /\ now' = now + 1
    /\ UNCHANGED <<capacity, request_id, nCalls, pc, call, ret, alive, reqChan,
                   notifChan, inChan, table, bgDone>>

(* ------------------------- the codec in use --------------------------- *)

\* Values of the fields of the messages built by the application.
Ids == {IdNumber(0), IdNumber(I64Min), IdNumber(I64Max), IdString("a")}
Methods == {"m", ""}
Values ==
    {JNull, JBool(FALSE), JNumber(1), JString("v"), JArray(<<>>),
     JObject(EmptyObject), JObject([k |-> JNull])}
ParamsSet ==
    {ParamsNull, ParamsArray(<<>>), ParamsArray(<<JNull>>),
     ParamsObject(EmptyObject), ParamsObject([k |-> JString("v")])}
RpcErrors ==
    {RpcError(c, m, d) : c \in {-1, I64Max}, m \in {"", "response timeout"},
                         d \in {JNull, JString("v"), JObject([k |-> JNull])}}
Results == {ResultOk(v) : v \in Values} \cup {ResultErr(e) : e \in RpcErrors}

\* Every constructible value of the four message types, over those fields.
Items ==
    {NewRequest(i, m, p) : i \in Ids, m \in Methods, p \in ParamsSet}
    \cup {NewNotification(m, p) : m \in Methods, p \in ParamsSet}
    \cup {NewResponse(i, r) : i \in {IdNumber(I64Min), IdString("a")}, r \in Results}
    \cup RpcErrors

\* What a peer may put under each key of a document, Absent for a key that
\* is missing.
VersionValues == {Absent, JString("2.0"), JString("1.0"), JNumber(2)}
IdValues ==
    {Absent, JNumber(0), JString("a"), JNull, JFloat(1), JNumber(I64Max + 1)}
MethodValues == {Absent, JString("m"), JNumber(1)}
ParamsValues == {Absent, JNull, JArray(<<>>), JObject(EmptyObject), JBool(TRUE)}
ResultValues == {Absent, JNull, JString("v")}
ErrorValues ==
    {Absent, JNull,
     JObject([code |-> JNumber(1), message |-> JString("e")]),
     JObject([code |-> JFloat(1), message |-> JString("e"), data |-> JNull]),
     JObject([code |-> JNumber(1), message |-> JNull, data |-> JString("v")]),
     JObject([message |-> JString("e")]),
     JObject([code |-> JNumber(1)])}

\* The JSON object with the given value under each key that is not Absent.
Document(j, i, m, p, r, e) ==
    LET f == [jsonrpc |-> j, id |-> i, method |-> m, params |-> p,
              result |-> r, error |-> e]
    IN  JObject([k \in {x \in DOMAIN f : f[x] # Absent} |-> f[k]])

\* The documents a peer may send: objects, and values that are not objects.
Documents ==
    {Document(j, i, m, p, r, e) :
        j \in VersionValues, i \in IdValues, m \in MethodValues,
        p \in ParamsValues, r \in ResultValues, e \in ErrorValues}
    \cup {JNull, JString("2.0"), JArray(<<>>), JNumber(0), JBool(TRUE)}

\* The codec is handed a value to encode, or a document to decode.
InitCodec ==
    /\ spawn
    /\ capacity = 1
    /\ decoded = NoOut
    /\ \/ src \in Items /\ wire = Absent
       \/ src = Absent /\ wire \in Documents

\* A step of the codec leaves the reactor alone.
Encode(kind, value) ==
    /\ src # Absent /\ src.kind = kind /\ wire = Absent
    /\ wire' = value
    /\ UNCHANGED <<reactor, src, decoded>>

Decode(kind, result) ==
    /\ wire # Absent /\ kind \notin DOMAIN decoded
    /\ decoded' = [k \in (DOMAIN decoded) \cup {kind} |->
                       IF k = kind THEN result ELSE decoded[k]]
    /\ UNCHANGED <<reactor, src, wire>>

\* Value::from(request), Value::from(notification), ...
EncodeRequest == Encode("Request", RequestToValue(src))
EncodeNotification == Encode("Notification", NotificationToValue(src))
EncodeRpcError == Encode("RpcError", RpcErrorToValue(src))
EncodeResponse == Encode("Response", ResponseToValue(src))

\* Request::try_from(&value), Notification::try_from(&value), ...
DecodeRequest == Decode("Request", RequestTryFrom(wire))
DecodeNotification == Decode("Notification", NotificationTryFrom(wire))
DecodeRpcError == Decode("RpcError", RpcErrorTryFrom(wire))
DecodeResponse == Decode("Response", ResponseTryFrom(wire))

(* --------------------------- specifications -------------------------- *)

\* The caller's calls, made while fewer than `limit` one-shot channels exist
\* and fewer than MaxCalls request() calls were made.
Calls(limit) ==
    /\ Len(waiters) < limit
    /\ \/ \E t \in Timeouts : nCalls < MaxCalls /\ CallRequest(t)
       \/ \E id \in UserIds, t \in Timeouts : CallRequestWithId(id, t)

\* The reactor in operation: requests, responses, sweeps, and a transport
\* that may stop taking requests.
Next ==
    \/ Calls(MaxWaiters) /\ UNCHANGED codec
    \/ Register /\ UNCHANGED codec
    \/ TakeRequest /\ UNCHANGED codec
    \/ CloseRequests /\ UNCHANGED codec
    \/ \E id \in ResponseIds, r \in RemoteResults : PushResponse(id, r) /\ UNCHANGED codec
    \/ BgHandle /\ UNCHANGED codec
    \/ Tick /\ UNCHANGED codec

Spec == Init /\ [][Next]_vars

\* The reactor's life cycle: the above with receivers abandoned, the
\* inbound channel closing, the background task ending and the Reactor
\* handle dropped.
NextLife ==
    \/ Calls(MaxWaiters - 1) /\ UNCHANGED codec
    \/ Register /\ UNCHANGED codec
    \/ \E w \in DOMAIN waiters : Abandon(w) /\ UNCHANGED codec
    \/ TakeRequest /\ UNCHANGED codec
    \/ CloseRequests /\ UNCHANGED codec
    \/ \E id \in ResponseIds, r \in RemoteResults : PushResponse(id, r) /\ UNCHANGED codec
    \/ CloseResponses /\ UNCHANGED codec
    \/ BgHandle /\ UNCHANGED codec
    \/ BgEnd /\ UNCHANGED codec
    \/ DropReactor /\ UNCHANGED codec
    \/ Tick /\ UNCHANGED codec

SpecLife == Init /\ [][NextLife]_vars

\* The shutdown of the background task, with the runtime's scheduling: the
\* calls, the responses, abandoned receivers, the inbound channel closing
\* and the Reactor handle dropped, at one instant of the clock.  The task
\* is a spawned task that the runtime keeps polling, its recv returns once
\* a response is queued or the channel is closed, and the table lock it
\* then waits for is held by the caller only across the insert and the
\* sweep, which do not suspend.
NextShutdown ==
    \/ Calls(MaxWaiters - 1) /\ UNCHANGED codec
    \/ Register /\ UNCHANGED codec
    \/ \E w \in DOMAIN waiters : Abandon(w) /\ UNCHANGED codec
    \/ TakeRequest /\ UNCHANGED codec
    \/ \E id \in ResponseIds, r \in RemoteResults : PushResponse(id, r) /\ UNCHANGED codec
    \/ CloseResponses /\ UNCHANGED codec
    \/ BgHandle /\ UNCHANGED codec
    \/ BgEnd /\ UNCHANGED codec
    \/ DropReactor /\ UNCHANGED codec

SpecShutdown ==
    /\ Init /\ [][NextShutdown]_vars
    /\ WF_vars(BgHandle /\ UNCHANGED codec)
    /\ WF_vars(BgEnd /\ UNCHANGED codec)

\* The caller's three calls against the outbound channels.
NextCalls ==
    \/ Calls(MaxWaiters - 1) /\ UNCHANGED codec
    \/ Register /\ UNCHANGED codec
    \/ \E t \in Timeouts : Notify(t) /\ UNCHANGED codec
    \/ TakeRequest /\ UNCHANGED codec
    \/ TakeNotification /\ UNCHANGED codec
    \/ CloseRequests /\ UNCHANGED codec
    \/ CloseNotifications /\ UNCHANGED codec
    \/ \E id \in ResponseIds, r \in RemoteResults : PushResponse(id, r) /\ UNCHANGED codec
    \/ BgHandle /\ UNCHANGED codec
    \/ Tick /\ UNCHANGED codec

SpecCalls == Init /\ [][NextCalls]_vars

\* The codec: a value is encoded, and the document is put through the
\* decoders, each at most once and in any order.
NextCodec ==
    \/ EncodeRequest
    \/ EncodeNotification
    \/ EncodeRpcError
    \/ EncodeResponse
    \/ DecodeRequest
    \/ DecodeNotification
    \/ DecodeRpcError
    \/ DecodeResponse

SpecCodec == InitCodec /\ [][NextCodec]_vars

(* ------------------------------- claims ------------------------------- *)

\* A step in which the background task handles the response at the head of
\* the inbound buffer.
BgStep == responses # <<>> /\ responses' = Tail(responses)

\* A step in which request_with_id, holding the table lock, inserts,
\* sweeps and returns.
RegisterStep == pc = "insert" /\ pc' = "idle"

\* A step in which request or request_with_id returns None.
ReturnsNone == ret' = RetNone /\ (ret # RetNone \/ nCalls' # nCalls)

\* A step in which the table is dropped.
TeardownStep == TableDropped(alive', bgDone') /\ ~TableDropped(alive, bgDone)

\* What a one-shot receiver holds after one send.
Got(result, by) == <<[val |-> result, by |-> by]>>

\* C1: with at most one request outstanding per id, when the transport
\* pushes a response for id X after request X became visible on the
\* outbound channel, the waiter for X receives that response's outcome:
\* whenever the background task handles such a response while request X is
\* still outstanding, X's one-shot channel is sent its result.  (The task
\* consumes the response in that step, so a waiter that is not sent the
\* result then never receives it.)
C1_ResponseReachesWaiter ==
    [][BgStep =>
        LET m == Head(responses)
            inTable == m.id \in DOMAIN pending
            inCall == pc = "insert" /\ call.id = m.id
        IN  (m.asked /\ (inTable \/ inCall) /\ ~(inTable /\ inCall)) =>
                LET w == IF inTable THEN pending[m.id].sender ELSE call.rx
                IN  waiters'[w].got = Got(m.result, 0)
      ]_vars

\* C2: when the enqueue fails inside request_with_id the call returns None
\* and leaves the table and every one-shot channel as they were (nothing
\* inserted, removed, swept or fulfilled); the failure is a closed or full
\* channel, and a one-shot channel is only ever created together with a
\* successful enqueue.
C2_FailedSendLeavesTable ==
    [][/\ ReturnsNone =>
            /\ UNCHANGED <<pending, waiters, requests>>
            /\ pc' = "idle"
            /\ ~requestsOpen \/ Len(requests) = ChanCap
       /\ Len(waiters') > Len(waiters) =>
            /\ requestsOpen /\ Len(requests) < ChanCap
            /\ requests' = Append(requests, Request(call'.id))
      ]_vars

\* A call has returned None on a full channel while entries are pending.
C2_Witness ==
    /\ ret = RetNone
    /\ requestsOpen /\ Len(requests) = ChanCap
    /\ DOMAIN pending # {}

\* C3: every waiter receives at most one value: a sender sits under at
\* most one key of the table, and a waiter that holds a value or whose
\* sender was dropped has no sender left in the table, so no response,
\* duplicate response or sweep can send to it again.
C3_AtMostOnce ==
    /\ \A w \in DOMAIN waiters :
        /\ Len(waiters[w].got) <= 1
        /\ (waiters[w].got # <<>> \/ waiters[w].closed) => w \notin Senders(pending)
    /\ \A j, k \in DOMAIN pending : pending[j].sender = pending[k].sender => j = k

\* One waiter holds a response, another the timeout failure, and a response
\* that was asked for is queued for an id that has no entry any more.
C3_Witness ==
    /\ \E w \in DOMAIN waiters : waiters[w].got # <<>> /\ waiters[w].got[1].by = 0
    /\ \E w \in DOMAIN waiters : waiters[w].got # <<>> /\ waiters[w].got[1].by # 0
    /\ responses # <<>>
    /\ Head(responses).asked /\ Head(responses).id \notin DOMAIN pending

\* C4: handling a Response with id X affects only the entry keyed by X: if
\* there is one it is removed and its sender sent the response's result
\* (received unless the receiver was dropped), every other entry and
\* waiter staying as it was; if there is none, the table and all waiters
\* are unchanged; either way the task goes on with the later responses.
C4_OnlyMatchingEntry ==
    [][BgStep =>
        LET m == Head(responses)
        IN  /\ ~bgDone'
            /\ IF m.id \in DOMAIN pending
               THEN LET w == pending[m.id].sender
                    IN  /\ pending' = MapRemove(pending, {m.id})
                        /\ waiters'[w].got =
                               IF waiters[w].rx THEN Got(m.result, 0) ELSE <<>>
                        /\ \A v \in DOMAIN waiters : v # w => waiters'[v] = waiters[v]
               ELSE UNCHANGED <<pending, waiters>>
      ]_vars

\* Of two requests, the second has received its response and the first is
\* still pending, unresolved.
C4_Witness ==
    /\ Len(waiters) = 2
    /\ waiters[2].got # <<>> /\ waiters[2].got[1].by = 0
    /\ waiters[1].got = <<>> /\ ~waiters[1].closed
    /\ 1 \in Senders(pending)

\* C5: when a request_with_id has inserted its entry and the table is then
\* larger than capacity, on return exactly the entries with a timeout t and
\* an elapsed time strictly greater than t are gone from the table, each of
\* their senders sent RpcError{-1, "response timeout", null}; the entries
\* with elapsed time at most their timeout, or with no timeout, are kept.
C5_SweepExpiresExactly ==
    [][RegisterStep =>
        LET q == MapInsert(pending, call.id,
                           PendingRequest(call.rx, call.moment, call.timeout))
            late == {id \in DOMAIN q :
                        q[id].timeout.some /\ now - q[id].moment > q[id].timeout.dur}
        IN  Cardinality(DOMAIN q) > capacity =>
                /\ DOMAIN pending' = (DOMAIN q) \ late
                /\ \A id \in DOMAIN pending' : pending'[id] = q[id]
                /\ \A id \in late :
                       waiters[q[id].sender].rx =>
                           waiters'[q[id].sender].got =
                               Got(Err(-1, "response timeout", "null"), call.rx)
      ]_vars

\* With capacity 1, the registration of a third request has expired the
\* first two and kept its own entry.
C5_Witness ==
    /\ capacity = 1
    /\ Len(waiters) = 3
    /\ waiters[1].got = Got(TimeoutError, 3)
    /\ waiters[2].got = Got(TimeoutError, 3)
    /\ Senders(pending) = {3}

\* C6: an entry registered with timeout None is never removed by a sweep
\* and its waiter never receives the timeout failure, whatever the elapsed
\* time and however many sweeps run: it leaves the table only when a
\* response with its id is handled or a registration with its id replaces it.
C6_NoTimeoutNeverSwept ==
    [][\A id \in DOMAIN pending :
          ~pending[id].timeout.some =>
              LET w == pending[id].sender
              IN  /\ \A i \in DOMAIN waiters'[w].got :
                        /\ waiters'[w].got[i].val # TimeoutError
                        /\ waiters'[w].got[i].by = 0
                  /\ (id \notin DOMAIN pending' \/ pending'[id].sender # w) =>
                        \/ BgStep /\ Head(responses).id = id
                        \/ RegisterStep /\ call.id = id
      ]_vars

\* An entry without timeout, registered before the present instant, is
\* still pending after a later registration ran a sweep that expired
\* another entry.
C6_Witness ==
    \E id \in DOMAIN pending :
        /\ ~pending[id].timeout.some
        /\ pending[id].moment < now
        /\ \E w \in DOMAIN waiters :
              waiters[w].got # <<>> /\ waiters[w].got[1].by > pending[id].sender

\* C7 as stated: after a request_with_id that succeeds with an id already
\* pending, the table holds exactly one entry for that id, the new one.
C7_Original ==
    [][(RegisterStep /\ call.id \in DOMAIN pending) =>
          /\ call.id \in DOMAIN pending'
          /\ pending'[call.id].sender = call.rx
      ]_vars

\* C7 amended: after a request_with_id that succeeds with an id already
\* pending, the table holds at most one entry for that id, and if it holds
\* one it is the new one; it holds none exactly when the call's own sweep
\* expired the new entry, whose waiter then holds the timeout failure.  The
\* earlier waiter's sender is dropped: it is never fulfilled with a value,
\* then or later, and has no entry left for a response to find.
C7_OverwriteOrphans ==
    /\ [](\A w \in DOMAIN waiters :
              waiters[w].closed => waiters[w].got = <<>> /\ w \notin Senders(pending))
    /\ [][(RegisterStep /\ call.id \in DOMAIN pending) =>
            LET old == pending[call.id].sender
            IN  /\ waiters'[old].closed
                /\ waiters'[old].got = <<>>
                /\ call.id \in DOMAIN pending' =>
                       pending'[call.id].sender = call.rx
                /\ call.id \notin DOMAIN pending' =>
                       /\ call.timeout.some /\ now - call.moment > call.timeout.dur
                       /\ waiters'[call.rx].got = Got(TimeoutError, call.rx)
         ]_vars

\* Of two requests with one id, the first waiter's sender was dropped and
\* the second has received the response.
C7_Witness ==
    /\ Len(waiters) = 2
    /\ waiters[1].closed /\ waiters[1].got = <<>>
    /\ waiters[2].got # <<>> /\ waiters[2].got[1].by = 0

\* A value of Result<Value, RpcError>: a success value, the remote
\* RpcError, or the code -1 timeout RpcError.
IsResult(r) == r \in RemoteResults \cup {TimeoutError}

\* C8 as stated, for a reactor whose handle is alive: awaiting a returned
\* receiver always yields a success value or an RpcError, never a one-shot
\* channel closed without a value.
C8_Original ==
    alive =>
        \A w \in DOMAIN waiters :
            /\ ~waiters[w].closed
            /\ \A i \in DOMAIN waiters[w].got : IsResult(waiters[w].got[i].val)

\* C8 amended: awaiting a returned receiver yields a success value, the
\* remote RpcError or the code -1 timeout RpcError, or else finds the
\* channel closed without a value, and that only when a later
\* request_with_id with the same id replaced its entry, or the table was
\* dropped after both the Reactor handle and the background task were gone.
C8_ValueOrOrphaned ==
    /\ [](\A w \in DOMAIN waiters :
              \A i \in DOMAIN waiters[w].got : IsResult(waiters[w].got[i].val))
    /\ [][\A w \in DOMAIN waiters :
              (waiters'[w].closed /\ ~waiters[w].closed) =>
                  \/ /\ RegisterStep
                     /\ call.id \in DOMAIN pending
                     /\ pending[call.id].sender = w
                  \/ /\ TeardownStep
                     /\ w \in Senders(pending)
         ]_vars

\* Of two request_with_id calls with one id, the first waiter was orphaned
\* by the second, and the table was then dropped with the second's sender.
C8_Witness ==
    /\ Len(waiters) = 2
    /\ waiters[1].closed /\ waiters[2].closed
    /\ TableDropped(alive, bgDone)
    /\ nCalls = 0

\* A step in which a notify call returns.
NotifyReturns ==
    /\ ret' \in {RetBool(TRUE), RetBool(FALSE)}
    /\ ret' # ret \/ Len(notifications') > Len(notifications)

\* C9: notify returns true exactly when the Notification was enqueued on
\* the outbound notification channel, false when that channel is closed or
\* full, and in every case leaves the pending table, the one-shot channels,
\* the request-id counter and the outbound request channel unchanged.
C9_NotifyFrame ==
    [][NotifyReturns =>
        /\ (ret' = RetBool(TRUE)) <=>
               (notifications' = Append(notifications, Notification))
        /\ ret' = RetBool(TRUE) =>
               notificationsOpen /\ Len(notifications) < ChanCap
        /\ ret' = RetBool(FALSE) =>
               /\ notifications' = notifications
               /\ ~notificationsOpen \/ Len(notifications) = ChanCap
        /\ UNCHANGED <<pending, waiters, request_id, requests, requestsOpen>>
      ]_vars

\* A notify has just failed on a full channel while a request is pending,
\* another is queued outbound and the counter has advanced.
C9_Witness ==
    /\ ret = RetBool(FALSE)
    /\ notificationsOpen /\ Len(notifications) = ChanCap
    /\ DOMAIN pending # {}
    /\ requests # <<>>
    /\ request_id # 0

\* C10: the n-th request() call (n from 0, whether or not earlier calls
\* enqueued) issues Id::Number(n) reduced to the counter's width: the
\* counter is always the number of request() calls made, wrapped, so it
\* starts at zero, advances by one per request() call, wraps from the
\* largest to the smallest value, and no other call changes it.
C10_Counter ==
    /\ [](request_id = ToI64(nCalls))
    /\ [][nCalls' # nCalls =>
            /\ nCalls' = nCalls + 1
            /\ pc' = "insert" =>
                   /\ call'.id = IdNumber(ToI64(nCalls))
                   /\ requests' = Append(requests, Request(IdNumber(ToI64(nCalls))))
            /\ pc' # "insert" => ret' = RetNone /\ requests' = requests
         ]_vars

\* The counter has wrapped to the smallest value and gone on, with a
\* failed request() among the calls.
C10_Witness ==
    /\ nCalls = I64Max + 2
    /\ request_id = I64Min + 1
    /\ Len(waiters) < nCalls

\* C11: for every constructible Request, Notification, Response and
\* RpcError (null params, empty array and object params, a success whose
\* result is JSON null and an RpcError with null data among them),
\* decoding the encoded value with the decoder of its own type succeeds and
\* yields a value equal to the original.
C11_RoundTrip ==
    (src # Absent /\ wire # Absent /\ src.kind \in DOMAIN decoded) =>
        decoded[src.kind] = Decoded(src)

\* A success Response whose result is JSON null has been encoded and
\* decoded back.
C11_Witness ==
    /\ src # Absent /\ src.kind = "Response"
    /\ src.result = ResultOk(JNull)
    /\ "Response" \in DOMAIN decoded
    /\ decoded["Response"].ok

\* C12: the encoded Request is an object with the keys jsonrpc, method and
\* id, and the key params exactly when its params are not the null variant
\* (an empty array or object is emitted); the encoded Notification always
\* has exactly the keys jsonrpc, method and params, the latter JSON null
\* for the null variant.
C12_EncodedKeys ==
    (src # Absent /\ wire # Absent) =>
        /\ src.kind = "Request" =>
               /\ wire.tag = "Object"
               /\ DOMAIN wire.o =
                      {"jsonrpc", "method", "id"} \cup
                      (IF src.params = ParamsNull THEN {} ELSE {"params"})
        /\ src.kind = "Notification" =>
               /\ wire.tag = "Object"
               /\ DOMAIN wire.o = {"jsonrpc", "method", "params"}
               /\ src.params = ParamsNull => wire.o["params"] = JNull

\* A Request with an empty array for params has been encoded with its
\* params key.
C12_Witness ==
    /\ src # Absent /\ src.kind = "Request"
    /\ src.params = ParamsArray(<<>>)
    /\ wire # Absent
    /\ wire.o["params"] = JArray(<<>>)

\* The document is an object whose jsonrpc is "2.0" and the Response
\* decoder has been applied to it.
ResponseDecoded ==
    /\ wire # Absent /\ wire.tag = "Object"
    /\ Get(wire.o, "jsonrpc") = JString("2.0")
    /\ "Response" \in DOMAIN decoded

\* C13 as stated: with both a result and an error key, or with neither,
\* the decoder fails with ResponseExpectsResultOrError whatever the values
\* under the keys.
C13_Original ==
    (/\ ResponseDecoded
     /\ ("result" \in DOMAIN wire.o) = ("error" \in DOMAIN wire.o))
    => decoded["Response"] = Failed("ResponseExpectsResultOrError")

\* The value decodes as an RpcError: an object with a code that is an
\* integer fitting an i64 and a message that is a string.
WellFormedError(v) ==
    /\ v.tag = "Object"
    /\ "code" \in DOMAIN v.o /\ "message" \in DOMAIN v.o
    /\ v.o["code"].tag = "Number" /\ ~v.o["code"].float /\ v.o["code"].n <= I64Max
    /\ v.o["message"].tag = "String"

\* C13 amended: on an object with jsonrpc "2.0", an error key whose value
\* does not decode as an RpcError makes the decoder fail with that RpcError
\* decode error, whether or not result is present; otherwise it fails with
\* ResponseExpectsResultOrError when both keys are present and when neither
\* is, whatever the value under result and whether or not id is present.
\* It yields a success outcome only with result present and error absent,
\* and a failure outcome only with error present and result absent.
C13_ResultXorError ==
    ResponseDecoded =>
        LET map == wire.o
            r == decoded["Response"]
            hasResult == "result" \in DOMAIN map
            hasError == "error" \in DOMAIN map
        IN  IF hasError /\ ~WellFormedError(map["error"])
            THEN /\ ~r.ok
                 /\ r.error \in {"UnexpectedErrorVariant", "ExpectedErrorCode",
                                 "ExpectedErrorCodeAsInteger",
                                 "ExpectedErrorMessage",
                                 "ExpectedErrorCodeAsString"}
            ELSE /\ (hasResult = hasError) =>
                        r = Failed("ResponseExpectsResultOrError")
                 /\ (hasResult # hasError) =>
                        \/ r.ok
                        \/ r.error \in {"ExpectedId", "InvalidNumberCast",
                                        "UnexpectedIdVariant"}
                 /\ r.ok =>
                        IF r.val.result.ok
                        THEN /\ hasResult /\ ~hasError
                             /\ r.val.result.value = map["result"]
                        ELSE hasError /\ ~hasResult

\* A document with a result, a well-formed error and no id has been
\* refused with ResponseExpectsResultOrError.
C13_Witness ==
    /\ ResponseDecoded
    /\ {"result", "error"} \subseteq DOMAIN wire.o
    /\ WellFormedError(wire.o["error"])
    /\ "id" \notin DOMAIN wire.o
    /\ decoded["Response"] = Failed("ResponseExpectsResultOrError")

\* C14: the Request decoder reports the first check that fails, in the
\* order: not an object; jsonrpc absent; jsonrpc not the string "2.0"; id
\* absent; id of an invalid kind; method absent; method not a string;
\* params a boolean, number or string.  It succeeds exactly when no check
\* fails, with the id, method and params of the document (null params when
\* the key is absent), and returns a Request or one Error, nothing else.
C14_CheckOrder ==
    (wire # Absent /\ "Request" \in DOMAIN decoded) =>
        LET r == decoded["Request"]
        IN  IF wire.tag # "Object" THEN r = Failed("UnexpectedRequestVariant")
            ELSE
            LET map == wire.o
                has(k) == k \in DOMAIN map
                badVersion == has("jsonrpc") /\ map["jsonrpc"] # JString("2.0")
                badId ==
                    has("id") /\ ~(\/ map["id"].tag = "String"
                                  \/ /\ map["id"].tag = "Number"
                                     /\ ~map["id"].float
                                     /\ map["id"].n \in I64Min .. I64Max)
                badMethod == has("method") /\ map["method"].tag # "String"
                badParams ==
                    has("params") /\ map["params"].tag \in {"Bool", "Number", "String"}
                expected ==
                    IF ~has("jsonrpc") THEN Failed("JsonRpcVersionNotFound")
                    ELSE IF badVersion THEN Failed("InvalidJsonRpcVersion")
                    ELSE IF ~has("id") THEN Failed("ExpectedId")
                    ELSE IF badId
                    THEN IF map["id"].tag = "Number"
                         THEN Failed("InvalidNumberCast")
                         ELSE Failed("UnexpectedIdVariant")
                    ELSE IF ~has("method") THEN Failed("ExpectedMethod")
                    ELSE IF badMethod THEN Failed("InvalidMethodVariant")
                    ELSE IF badParams THEN Failed("UnexpectedParamsVariant")
                    ELSE Decoded(
                        [kind |-> "Request",
                         id |-> IF map["id"].tag = "String"
                                THEN IdString(map["id"].s)
                                ELSE IdNumber(map["id"].n),
                         method |-> map["method"].s,
                         params |-> IF has("params") THEN map["params"] ELSE ParamsNull])
            IN  /\ r = expected
                /\ r.ok <=> /\ has("jsonrpc") /\ ~badVersion
                            /\ has("id") /\ ~badId
                            /\ has("method") /\ ~badMethod
                            /\ ~badParams

\* A document without id, with a method that is not a string and params
\* that are a boolean, has been refused for the id.
C14_Witness ==
    /\ wire # Absent /\ wire.tag = "Object"
    /\ Get(wire.o, "jsonrpc") = JString("2.0")
    /\ "id" \notin DOMAIN wire.o
    /\ Get(wire.o, "method") = JNumber(1)
    /\ Get(wire.o, "params") = JBool(TRUE)
    /\ "Request" \in DOMAIN decoded
    /\ decoded["Request"] = Failed("ExpectedId")

\* The table of a request_with_id that holds the lock, right after its
\* insert.
Inserted ==
    MapInsert(pending, call.id, PendingRequest(call.rx, call.moment, call.timeout))

\* A step in which request_with_id, after its insert, runs the sweep.
SweepStep == RegisterStep /\ Cardinality(DOMAIN Inserted) > capacity

\* C15: a waiter is sent the timeout failure, and an entry leaves the
\* table other than for a response with its id, only in a step of a
\* request_with_id that was enqueued, has inserted its entry and then finds
\* the table larger than capacity; notify, failed requests, response
\* handling and registrations that leave the table within capacity expire
\* nothing, however long ago a timeout elapsed.
C15_SweepOnlyOverCapacity ==
    [][/\ \A w \in DOMAIN waiters :
              (/\ waiters'[w].got # waiters[w].got
               /\ \/ waiters'[w].got[Len(waiters'[w].got)].by # 0
                  \/ waiters'[w].got[Len(waiters'[w].got)].val = TimeoutError)
              => SweepStep
       /\ \A id \in DOMAIN pending :
              id \notin DOMAIN pending' =>
                  \/ SweepStep
                  \/ BgStep /\ Head(responses).id = id
       /\ (RegisterStep /\ ~SweepStep) =>
              /\ pending' = Inserted
              /\ \A w \in DOMAIN waiters : waiters'[w].got = waiters[w].got
       /\ (NotifyReturns \/ ReturnsNone) => UNCHANGED <<pending, waiters>>
      ]_vars

\* With a table at its capacity of two, an entry whose zero timeout
\* elapsed is still pending after a notify returned, and no waiter has
\* been sent the timeout failure.
C15_Witness ==
    /\ capacity = 2
    /\ Cardinality(DOMAIN pending) = 2
    /\ \E id \in DOMAIN pending :
           pending[id].timeout.some /\ now - pending[id].moment > pending[id].timeout.dur
    /\ ret \in {RetBool(TRUE), RetBool(FALSE)}
    /\ \A w \in DOMAIN waiters : waiters[w].got = <<>>

\* A step in which the background task takes a response off the inbound
\* buffer.
BgTakes == Len(responses') < Len(responses)

C17_EndsIffClosed ==
    /\ [](bgDone => ~responsesOpen /\ responses = <<>>)
    /\ [][(bgDone' /\ ~bgDone) => ~responsesOpen /\ responses = <<>>]_vars
    /\ [][bgDone => bgDone']_vars
    /\ [][(BgTakes /\ ~responsesOpen) =>
            /\ ~bgDone'
            /\ responses' = Tail(responses)
         ]_vars
    /\ [](~responsesOpen => <>bgDone)

\* The task has ended after the inbound channel was closed; before that
\* it delivered a response, and a delivery to an abandoned waiter failed.
C17_Witness ==
    /\ bgDone /\ ~responsesOpen /\ alive
    /\ \E w \in DOMAIN waiters : waiters[w].got # <<>> /\ waiters[w].got[1].by = 0
    /\ \E w \in DOMAIN waiters :
           /\ ~waiters[w].rx /\ waiters[w].got = <<>> /\ ~waiters[w].closed
           /\ w \notin Senders(pending)

\* C18: the Notification decoder succeeds on every object that passes the
\* jsonrpc, method and params checks, whether or not it has an id and
\* whatever the id is; so a document that decodes as a Request decodes as
\* a Notification with the same method and params.
C18_NotificationIgnoresId ==
    (wire # Absent /\ "Notification" \in DOMAIN decoded) =>
        LET n == decoded["Notification"]
        IN  /\ (/\ wire.tag = "Object"
                /\ Get(wire.o, "jsonrpc") = JString("2.0")
                /\ Get(wire.o, "method").tag = "String"
                /\ Get(wire.o, "params").tag \in {"Absent", "Null", "Array", "Object"})
               => n.ok
            /\ ("Request" \in DOMAIN decoded /\ decoded["Request"].ok) =>
                   /\ n.ok
                   /\ n.val.method = decoded["Request"].val.method
                   /\ n.val.params = decoded["Request"].val.params

\* A document whose id is null, refused as a Request for its id, has
\* decoded as a Notification.
C18_Witness ==
    /\ wire # Absent /\ wire.tag = "Object"
    /\ Get(wire.o, "id") = JNull
    /\ {"Request", "Notification"} \subseteq DOMAIN decoded
    /\ decoded["Request"] = Failed("UnexpectedIdVariant")
    /\ decoded["Notification"].ok

\* C19 as stated: when a successful request_with_id returns, the table
\* holds an entry for its id whose sender is paired with the returned
\* receiver, and the receiver holds no value.
C19_Original ==
    [][RegisterStep =>
          /\ call.id \in DOMAIN pending'
          /\ pending'[call.id].sender = call.rx
          /\ waiters'[call.rx].got = <<>>
      ]_vars

\* C19 amended: when a successful request_with_id returns, the table holds
\* an entry for its id paired with the returned receiver, which holds no
\* value and is not closed, unless the call ran the sweep (the table was
\* larger than capacity after its insert) and more time than its timeout
\* passed between the moment it took before waiting for the table lock and
\* the sweep; then its own entry is gone and the returned receiver already
\* holds the timeout failure.
C19_RegisteredUnlessSelfExpired ==
    [][RegisterStep =>
          IF /\ Cardinality(DOMAIN Inserted) > capacity
             /\ call.timeout.some
             /\ now - call.moment > call.timeout.dur
          THEN /\ call.id \notin DOMAIN pending'
               /\ waiters'[call.rx].got = Got(TimeoutError, call.rx)
          ELSE /\ call.id \in DOMAIN pending'
               /\ pending'[call.id] =
                      PendingRequest(call.rx, call.moment, call.timeout)
               /\ waiters'[call.rx].got = <<>>
               /\ ~waiters'[call.rx].closed
      ]_vars

\* Two calls have returned: the sweep of the second has expired its own
\* entry and kept the first's, and the sweep of a third has kept its own.
C19_Witness ==
    /\ Len(waiters) = 3
    /\ pc = "idle"
    /\ waiters[2].got = Got(TimeoutError, 2)
    /\ Senders(pending) = {1, 3}
    /\ capacity = 1

\* C20: once the inbound channel is closed and the background task has
\* ended, a request_with_id still fails only for a closed or full outbound
\* channel, and otherwise inserts its entry and returns the receiver; as
\* long as the table exists, an entry leaves it only in a request_with_id
\* that sweeps or that replaces it under the same id, and no waiter is sent
\* a response any more.
C20_WorksWithoutTask ==
    [][bgDone =>
          /\ ReturnsNone => ~requestsOpen \/ Len(requests) = ChanCap
          /\ RegisterStep =>
                 /\ ret' = RetSome
                 /\ \/ /\ call.id \in DOMAIN pending'
                       /\ pending'[call.id].sender = call.rx
                    \/ /\ SweepStep
                       /\ waiters'[call.rx].got = Got(TimeoutError, call.rx)
          /\ ~TableDropped(alive', bgDone') =>
                 \A id \in DOMAIN pending :
                     (id \notin DOMAIN pending' \/ pending'[id] # pending[id]) =>
                         \/ SweepStep /\ id \notin DOMAIN pending'
                         \/ RegisterStep /\ call.id = id
          /\ \A w \in DOMAIN waiters :
                 waiters'[w].got # waiters[w].got =>
                     /\ SweepStep
                     /\ waiters'[w].got = Got(TimeoutError, call.rx)
      ]_vars

\* The background task has ended, the Reactor handle is alive, and a
\* request that has just been enqueued is about to take the table lock
\* while an earlier entry is pending.
C20_Witness ==
    /\ bgDone /\ alive
    /\ pc = "insert"
    /\ requests # <<>>
    /\ DOMAIN pending # {}

====
